---- MODULE Spec2Model ----
(***************************************************************************)
(* A model of src/connectors/http.ts: the request helper that builds one   *)
(* HTTP(S) request from caller options, dispatches it and settles one      *)
(* promise from the transport's events.                                    *)
(*                                                                         *)
(* Strings are TLA+ strings, read character by character with SubSeq.      *)
(* A JavaScript value is a record [k, s, e]: k its kind, s what toString() *)
(* gives for it, e the entries of a plain object in insertion order.       *)
(***************************************************************************)
EXTENDS Integers, Sequences, FiniteSets, TLC

VARIABLES
    hdrArg,     \* formatHeader: the header option handed in
    hdrOut,     \* formatHeader: [done, h] the header set returned
    ctArg,      \* getContentType: [k, media, params, sep] the value handed in
    ctOut,      \* getContentType: [done, t] the descriptor returned
    urlHeap,    \* the caller's already-parsed URL object (mutable, shared by reference)
    urlMade,    \* history: that URL object as the caller constructed it
    uri0,       \* history: the parsed URL the latest invocation started from
    nCalls,     \* request(): invocations made so far
    opts,       \* request(): the options of the latest invocation
    out,        \* request(): what the latest invocation handed to the transport
    req,        \* the request side: "idle", "writing" (write pending), "ended", "stalled"
    res,        \* the response side: [state, contentType, statusCode]
    chunks,     \* the 'data' chunks pushed so far, in arrival order
    outcome,    \* the promise: [status, value, error]
    uncaught,   \* exceptions that escaped an event handler
    hist        \* history: the first response error, whether the promise was settled
                \* before it, and the bytes in arrival order

headerVars == <<hdrArg, hdrOut>>
ctVars == <<ctArg, ctOut>>
requestVars == <<urlHeap, urlMade, uri0, nCalls, opts, out>>
responseVars == <<req, res, chunks, outcome, uncaught, hist>>

vars == <<headerVars, ctVars, requestVars, responseVars>>

-----------------------------------------------------------------------------
(* Bounds of the model *)

MaxHeaderKeys == 2
MaxParams == 2
MaxDataKeys == 2      \* entries of a data mapping (its keys are distinct)
MaxCalls == 2
MaxChunks == 2

-----------------------------------------------------------------------------
(* Strings *)

Char(s, i) == SubSeq(s, i, i)

Upper == "ABCDEFGHIJKLMNOPQRSTUVWXYZ"
Lower == "abcdefghijklmnopqrstuvwxyz"

LowerChar(c) ==
    IF \E i \in 1..26 : Char(Upper, i) = c
    THEN Char(Lower, CHOOSE i \in 1..26 : Char(Upper, i) = c)
    ELSE c

RECURSIVE toLowerCase(_)
toLowerCase(s) ==
    IF s = "" THEN "" ELSE LowerChar(Char(s, 1)) \o toLowerCase(Tail(s))

StartsWith(s, p) == Len(s) >= Len(p) /\ SubSeq(s, 1, Len(p)) = p

\* The first index >= i of s holding character c, or 0.
RECURSIVE IndexFrom(_, _, _)
IndexFrom(s, c, i) ==
    IF i > Len(s) THEN 0
    ELSE IF Char(s, i) = c THEN i
    ELSE IndexFrom(s, c, i + 1)

\* The first index >= i of s not holding character c, or Len(s) + 1.
RECURSIVE SkipRun(_, _, _)
SkipRun(s, c, i) ==
    IF i > Len(s) \/ Char(s, i) # c THEN i ELSE SkipRun(s, c, i + 1)

\* String.prototype.split on the pattern: one c, then any run of `trail`
\* (split(/\;\s*/) is SplitOn(s, ";", " "), split(/\/+/) is SplitOn(s, "/", "/")).
RECURSIVE SplitOn(_, _, _)
SplitOn(s, c, trail) ==
    LET i == IndexFrom(s, c, 1) IN
    IF i = 0 THEN <<s>>
    ELSE LET j == SkipRun(s, trail, i + 1) IN
         <<SubSeq(s, 1, i - 1)>> \o SplitOn(SubSeq(s, j, Len(s)), c, trail)

RECURSIVE Join(_, _)
Join(parts, sep) ==
    IF parts = <<>> THEN ""
    ELSE IF Len(parts) = 1 THEN parts[1]
    ELSE parts[1] \o sep \o Join(Tail(parts), sep)

-----------------------------------------------------------------------------
(* JavaScript values and plain objects *)

JsStr(s) == [k |-> "string", s |-> s, e |-> <<>>]
JsNum(s) == [k |-> "number", s |-> s, e |-> <<>>]
JsNull == [k |-> "null", s |-> "null", e |-> <<>>]
JsUndefined == [k |-> "undefined", s |-> "undefined", e |-> <<>>]
JsObject(entries) == [k |-> "object", s |-> "[object Object]", e |-> entries]

\* An entry of a plain object; the entries of an object have distinct keys.
Entry(key, val) == [key |-> key, val |-> val]

Has(entries, key) == \E i \in 1..Len(entries) : entries[i].key = key

Get(entries, key) ==
    entries[CHOOSE i \in 1..Len(entries) : entries[i].key = key].val

\* o[key] = val: an own key keeps its place, a new key goes last.
Put(entries, key, val) ==
    IF Has(entries, key)
    THEN [i \in 1..Len(entries) |->
            IF entries[i].key = key THEN Entry(key, val) ELSE entries[i]]
    ELSE Append(entries, Entry(key, val))

\* { ...a, ...b }
RECURSIVE Spread(_, _)
Spread(a, b) ==
    IF b = <<>> THEN a ELSE Spread(Put(a, b[1].key, b[1].val), Tail(b))

isInvalidValue_nullOnly(v) == v.k = "null"

isInvalidValue(v) == v.k = "null" \/ v.k = "undefined"

isRecord(v) == v.k = "object"

toString(v) == v.s

-----------------------------------------------------------------------------
(* The header tables and formatHeader *)

HEADERS == <<Entry("accept", "*/*"), Entry("connection", "keep-alive")>>

HEADERS_STATIC == <<Entry("user-agent", "AnyConn/0.0.1")>>

\* Object.entries(v).forEach: each valid entry is written into h as a string.
RECURSIVE CopyValid(_, _)
CopyValid(h, entries) ==
    IF entries = <<>> THEN h
    ELSE CopyValid(IF ~isInvalidValue(entries[1].val)
                   THEN Put(h, entries[1].key, toString(entries[1].val))
                   ELSE h,
                   Tail(entries))

formatHeader(v) ==
    LET h0 == Spread(<<>>, HEADERS)
        h  == IF isRecord(v) THEN CopyValid(h0, v.e) ELSE h0
    IN Spread(Spread(<<>>, h), HEADERS_STATIC)

-----------------------------------------------------------------------------
(* getContentType *)

\* What a destructured element that does not exist reads as.
Undefined == "<undefined>"

At(parts, i) == IF i <= Len(parts) THEN parts[i] ELSE Undefined

\* /^charset\=.+$/i.test(ch), and the group of /^charset\=(.+)$/ (ch is lower case).
CharsetPrefix == "charset="

MatchesCharset(ch) == StartsWith(ch, CharsetPrefix) /\ Len(ch) > Len(CharsetPrefix)

CharsetGroup(ch) == SubSeq(ch, Len(CharsetPrefix) + 1, Len(ch))

\* The second segment alone is looked at for the charset.
CharsetOf(segs) ==
    LET ch == At(segs, 2) IN
    IF ch # Undefined /\ ch # "" /\ MatchesCharset(ch) THEN CharsetGroup(ch) ELSE "utf-8"

DefaultContentType == [type |-> "text", format |-> "plain", charset |-> "utf-8"]

getContentType(ct) ==
    IF ct.k # "string" \/ ct.s = "" THEN DefaultContentType
    ELSE LET segs == SplitOn(toLowerCase(ct.s), ";", " ")
             t    == segs[1]
             tf   == SplitOn(t, "/", "/")
         IN [type |-> tf[1], format |-> At(tf, 2), charset |-> CharsetOf(segs)]

-----------------------------------------------------------------------------
(* Idle values: what a specification leaves alone *)

NoHeaderOut == [done |-> FALSE, h |-> <<>>]

NoContentTypeArg == [k |-> "undefined", media |-> "", params |-> <<>>, sep |-> ";"]

NoContentTypeOut == [done |-> FALSE, t |-> DefaultContentType]

HeaderIdle == hdrArg = JsUndefined /\ hdrOut = NoHeaderOut

ContentTypeIdle == ctArg = NoContentTypeArg /\ ctOut = NoContentTypeOut

-----------------------------------------------------------------------------
(* formatHeader applied to caller header options *)

\* The entry lists of length <= n over the keys and values, keys distinct.
EntrySeqs(keys, vals, n) ==
    UNION {{s \in [1..m -> {Entry(key, val) : key \in keys, val \in vals}] :
                \A i, j \in 1..m : i # j => s[i].key # s[j].key} : m \in 0..n}

HeaderKeys == {"accept", "user-agent", "User-Agent", "x-a"}

HeaderVals == {JsStr("curl"), JsNum("1"), JsNull, JsUndefined}

HeaderArgs ==
    {JsUndefined, JsStr("x-a: 1")}
        \cup {JsObject(e) : e \in EntrySeqs(HeaderKeys, HeaderVals, MaxHeaderKeys)}

FormatHeaderCall ==
    /\ ~hdrOut.done
    /\ hdrOut' = [done |-> TRUE, h |-> formatHeader(hdrArg)]
    /\ UNCHANGED <<hdrArg, ctVars, requestVars, responseVars>>

-----------------------------------------------------------------------------
(* getContentType applied to content-type values *)

MediaTypes == {"text/html", "Application/JSON", "image//png", "text"}

ParamSegs == {"charset=latin1", "Charset=UTF-16LE", "boundary=x", "charset="}

Separators == {";", "; "}

ContentTypeArgs ==
    {[k |-> kind, media |-> "", params |-> <<>>, sep |-> ";"] :
        kind \in {"undefined", "object", "string"}}
        \cup {[k |-> "string", media |-> m, params |-> ps, sep |-> sp] :
                m \in MediaTypes,
                ps \in UNION {[1..n -> ParamSegs] : n \in 0..MaxParams},
                sp \in Separators}

\* The value handed to getContentType: the segments joined by the separator.
ContentTypeValue(a) ==
    [k |-> a.k, s |-> Join(<<a.media>> \o a.params, a.sep), e |-> <<>>]

GetContentTypeCall ==
    /\ ~ctOut.done
    /\ ctOut' = [done |-> TRUE, t |-> getContentType(ContentTypeValue(ctArg))]
    /\ UNCHANGED <<ctArg, headerVars, requestVars, responseVars>>

-----------------------------------------------------------------------------
(* The URL value: new URL(href), searchParams.set, toString *)

Param(name, value) == [name |-> name, value |-> value]

\* "n=v" -> a parameter, split at the first "=".
ParseParam(p) ==
    LET i == IndexFrom(p, "=", 1) IN
    IF i = 0 THEN Param(p, "")
    ELSE Param(SubSeq(p, 1, i - 1), SubSeq(p, i + 1, Len(p)))

ParseQuery(q) ==
    IF q = "" THEN <<>>
    ELSE LET ps == SplitOn(q, "&", "") IN [i \in 1..Len(ps) |-> ParseParam(ps[i])]

\* new URL(href): the protocol, everything before "?", and the query parameters.
parseURL(href) ==
    LET q == IndexFrom(href, "?", 1)
        c == IndexFrom(href, ":", 1)
    IN [protocol |-> SubSeq(href, 1, c),
        base     |-> IF q = 0 THEN href ELSE SubSeq(href, 1, q - 1),
        query    |-> IF q = 0 THEN <<>> ELSE ParseQuery(SubSeq(href, q + 1, Len(href)))]

\* uri.toString()
urlToString(u) ==
    IF u.query = <<>> THEN u.base
    ELSE u.base \o "?" \o
         Join([i \in 1..Len(u.query) |-> u.query[i].name \o "=" \o u.query[i].value], "&")

HasParam(query, name) == \E i \in 1..Len(query) : query[i].name = name

FirstParam(query, name) == CHOOSE i \in 1..Len(query) :
    query[i].name = name /\ \A j \in 1..(i - 1) : query[j].name # name

RECURSIVE DropParamAfter(_, _, _)
DropParamAfter(query, name, i) ==
    IF query = <<>> THEN <<>>
    ELSE IF i <= 0 /\ query[1].name = name THEN DropParamAfter(Tail(query), name, i - 1)
    ELSE <<query[1]>> \o DropParamAfter(Tail(query), name, i - 1)

searchParamsAppend(query, name, value) == Append(query, Param(name, value))

\* URLSearchParams.set: the first parameter of that name takes the value and the
\* others of that name are removed; with none of that name, one is appended.
searchParamsSet(query, name, value) ==
    IF HasParam(query, name)
    THEN LET i == FirstParam(query, name)
             q == [j \in 1..Len(query) |-> IF j = i THEN Param(name, value) ELSE query[j]]
         IN DropParamAfter(q, name, i)
    ELSE Append(query, Param(name, value))

-----------------------------------------------------------------------------
(* request(): url normalisation, headers, query injection, body encoding *)

\* Object.entries(data).forEach on GET: each valid value is set as a parameter.
RECURSIVE SetParams(_, _)
SetParams(query, entries) ==
    IF entries = <<>> THEN query
    ELSE SetParams(IF ~isInvalidValue(entries[1].val)
                   THEN searchParamsSet(query, entries[1].key, toString(entries[1].val))
                   ELSE query,
                   Tail(entries))

\* JSON.stringify of a scalar; undefined has no JSON text.
JsonScalar(v) == IF v.k = "string" THEN "\"" \o v.s \o "\"" ELSE v.s

RECURSIVE JsonMembers(_)
JsonMembers(entries) ==
    IF entries = <<>> THEN <<>>
    ELSE (IF entries[1].val.k = "undefined" THEN <<>>
          ELSE <<"\"" \o entries[1].key \o "\":" \o JsonScalar(entries[1].val)>>)
         \o JsonMembers(Tail(entries))

\* JSON.stringify(data) for a plain object of scalars (keys and strings here
\* hold no character that JSON escapes).
JSONstringify(entries) == "{" \o Join(JsonMembers(entries), ",") \o "}"

EncodeChar(c) ==
    IF c = " " THEN "%20" ELSE IF c = "&" THEN "%26" ELSE IF c = "=" THEN "%3D" ELSE c

\* encodeURIComponent over letters, digits, space, "&" and "=".
RECURSIVE encodeURIComponent(_)
encodeURIComponent(s) ==
    IF s = "" THEN "" ELSE EncodeChar(Char(s, 1)) \o encodeURIComponent(Tail(s))

formBody(entries) ==
    Join([i \in 1..Len(entries) |->
            encodeURIComponent(entries[i].key) \o "=" \o
            encodeURIComponent(toString(entries[i].val))], "&")

formdataBody(entries, boundary) ==
    Join([i \in 1..Len(entries) |->
            "--" \o boundary \o "\n" \o
            "Content-Disposition: form-data; name=\"" \o entries[i].key \o "\"\n\n" \o
            toString(entries[i].val) \o "\n"], "")
    \o "--" \o boundary \o "--"

\* The tokens Date.now() and Math.random() may give.
Boundaries == {"AnyConnk1r1r2", "AnyConnk2r3r4"}

\* What request() computes before it dispatches: the URL value it works on
\* (the caller's own object when url is no string), the headers and the body.
requestBuild(o, heap, boundary) ==
    LET uri     == IF o.url.k = "string" THEN parseURL(o.url.s) ELSE heap
        headers == formatHeader(o.header)
        isGet   == isRecord(o.data) /\ o.method = "GET"
        isPost  == isRecord(o.data) /\ o.method = "POST"
        uri1    == IF isGet THEN [uri EXCEPT !.query = SetParams(uri.query, o.data.e)]
                   ELSE uri
        body    == IF isPost /\ o.dataType = "json" THEN JSONstringify(o.data.e)
                   ELSE IF isPost /\ o.dataType = "form" THEN formBody(o.data.e)
                   ELSE IF isPost /\ o.dataType = "formdata"
                        THEN formdataBody(o.data.e, boundary)
                   ELSE ""
        headers1 == IF isPost /\ o.dataType = "json"
                        THEN Put(headers, "content-type", "application/json")
                    ELSE IF isPost /\ o.dataType = "form"
                        THEN Put(headers, "content-type", "application/x-www-form-urlencoded")
                    ELSE IF isPost /\ o.dataType = "formdata"
                        THEN Put(headers, "content-type",
                                 "multipart/form-data; boundary=" \o boundary)
                    ELSE headers
    IN [uri0 |-> uri, uri |-> uri1, headers |-> headers1, body |-> body]

\* H.request(uri.toString(), {method, headers}, ...) and the body write.
dispatched(o, b) ==
    [sent      |-> TRUE,
     transport |-> IF b.uri.protocol = "https:" THEN "HTTPS" ELSE "HTTP",
     url       |-> urlToString(b.uri),
     method    |-> o.method,
     headers   |-> b.headers,
     body      |-> b.body,
     wrote     |-> Len(b.body) > 0]

NotSent ==
    [sent |-> FALSE, transport |-> "HTTP", url |-> "", method |-> "GET",
     headers |-> <<>>, body |-> "", wrote |-> FALSE]

NoOptions ==
    [url |-> JsStr(""), method |-> "GET", header |-> JsUndefined,
     data |-> JsUndefined, dataType |-> "json"]

NoURL == [protocol |-> "", base |-> "", query |-> <<>>]

\* The caller's URL object: a reference, not a string.
UrlObject == [k |-> "URL", s |-> "", e |-> <<>>]

\* The URL the caller parsed once and hands to several invocations.
MadeHref == "https://h/p?a=0&b=2&a=9"

DataKeys == {"a", "b"}

DataVals == {JsNum("1"), JsStr("x"), JsNull, JsUndefined}

GetUrls == {JsStr("http://h/p?b=0&a=2&b=9"), UrlObject}

\* GET invocations, on a URL string or on the caller's URL object: every data
\* value of the bounds under one dataType, and some under the other two.
GetOptions ==
    [url : GetUrls, method : {"GET"}, header : {JsUndefined},
     data : {JsUndefined, JsStr("raw")}
                \cup {JsObject(e) : e \in EntrySeqs(DataKeys, DataVals, MaxDataKeys)},
     dataType : {"form"}]
    \cup
    [url : GetUrls, method : {"GET"}, header : {JsUndefined},
     data : {JsStr("raw"), JsObject(<<Entry("a", JsNum("1")), Entry("b", JsStr("x"))>>)},
     dataType : {"json", "formdata"}]

\* POST invocations: every dataType, with and without a caller content-type.
PostOptions ==
    [url : {JsStr("http://h/p")},
     method : {"POST"},
     header : {JsUndefined,
               JsObject(<<Entry("content-type", JsStr("text/plain"))>>),
               JsObject(<<Entry("Content-Type", JsStr("text/plain"))>>)},
     data : {JsStr("raw"), JsObject(<<>>),
             JsObject(<<Entry("a", JsNum("1"))>>),
             JsObject(<<Entry("a b", JsStr("c&d")), Entry("b", JsNull)>>)},
     dataType : {"json", "form", "formdata"}]

RequestOptions == GetOptions \cup PostOptions

\* Date.now() and Math.random() are read on the formdata branch alone.
BoundariesFor(o) ==
    IF isRecord(o.data) /\ o.method = "POST" /\ o.dataType = "formdata"
    THEN Boundaries ELSE {"AnyConnk1r1r2"}

RequestIdle ==
    /\ urlHeap = NoURL /\ urlMade = NoURL /\ uri0 = NoURL
    /\ nCalls = 0 /\ opts = NoOptions /\ out = NotSent

\* One invocation of request(options), up to the dispatch. It runs to its end
\* before any other invocation starts.
Request(o, boundary) ==
    /\ nCalls < MaxCalls
    /\ LET b == requestBuild(o, urlHeap, boundary) IN
        /\ opts' = o
        /\ uri0' = b.uri0
        /\ out' = dispatched(o, b)
        /\ urlHeap' = IF o.url.k = "string" THEN urlHeap ELSE b.uri
    /\ nCalls' = nCalls + 1
    /\ UNCHANGED <<urlMade, headerVars, ctVars, responseVars>>

-----------------------------------------------------------------------------
(* The promise, and the response: Buffer.concat, toString(charset), JSON.parse *)

NoData == [t |-> "none", v |-> <<>>]

NoValue == [statusCode |-> 0, data |-> NoData, headers |-> JsUndefined]

Pending == [status |-> "pending", value |-> NoValue, error |-> "none"]

\* resolve and reject of new Promise(...): the first call settles the promise,
\* every later call is ignored.
resolve(o, value) ==
    IF o.status = "pending"
    THEN [status |-> "resolved", value |-> value, error |-> "none"]
    ELSE o

reject(o, err) ==
    IF o.status = "pending"
    THEN [status |-> "failed", value |-> NoValue, error |-> err]
    ELSE o

\* chunks.push(data)
pushChunk(cs, data) == Append(cs, data)

\* Buffer.concat(chunks)
RECURSIVE bufferConcat(_)
bufferConcat(cs) == IF cs = <<>> THEN <<>> ELSE cs[1] \o bufferConcat(Tail(cs))

\* The bytes of the model: "1", a double quote, and 0xE9, which is e-acute in
\* latin1 and no character of its own in UTF-8.
Byte1 == 49
ByteQuote == 34
ByteE9 == 233
ReplacementChar == 65533

KnownEncodings == {"utf-8", "utf8", "latin1", "binary"}

DecodeByte(b, charset) ==
    IF charset \in {"latin1", "binary"} \/ b < 128 THEN b ELSE ReplacementChar

\* data.toString(charset): the code points read; an unknown encoding throws.
bufferToString(bytes, charset) ==
    [i \in 1..Len(bytes) |-> DecodeByte(bytes[i], charset)]

\* JSON.parse over those characters: a run of digits is a number, a quoted run
\* with no quote inside is a string, everything else is a SyntaxError.
IsJsonNumber(text) == Len(text) > 0 /\ \A i \in 1..Len(text) : text[i] = Byte1

IsJsonString(text) ==
    /\ Len(text) >= 2
    /\ text[1] = ByteQuote /\ text[Len(text)] = ByteQuote
    /\ \A i \in 2..(Len(text) - 1) : text[i] # ByteQuote

JSONparses(text) == IsJsonNumber(text) \/ IsJsonString(text)

JSONparse(text) ==
    IF IsJsonNumber(text) THEN [t |-> "json-number", v |-> text]
    ELSE [t |-> "json-string", v |-> SubSeq(text, 2, Len(text) - 1)]

\* res.statusCode when the response carries none.
StatusAbsent == -1

statusOrZero(code) == IF code = StatusAbsent THEN 0 ELSE code

\* The 'end' handler: what it throws ("none" when it returns) and the promise after.
onEnd_textFirst(o, cs, contentType, statusCode) ==
    LET data == bufferConcat(cs)
        t    == getContentType(contentType)
        text == bufferToString(data, t.charset)
        result(d) == [statusCode |-> statusOrZero(statusCode), data |-> d,
                      headers |-> contentType]
    IN IF t.type = "text"
       THEN IF t.charset \notin KnownEncodings THEN [thrown |-> "TypeError", o |-> o]
            ELSE [thrown |-> "none", o |-> resolve(o, result([t |-> "string", v |-> text]))]
       ELSE IF t.format = "json"
       THEN IF t.charset \notin KnownEncodings THEN [thrown |-> "TypeError", o |-> o]
            ELSE IF ~JSONparses(text) THEN [thrown |-> "SyntaxError", o |-> o]
            ELSE [thrown |-> "none", o |-> resolve(o, result(JSONparse(text)))]
       ELSE [thrown |-> "none", o |-> resolve(o, result([t |-> "buffer", v |-> data]))]

onEnd(o, cs, contentType, statusCode) ==
    LET data == bufferConcat(cs)
        t    == getContentType(contentType)
        text == bufferToString(data, t.charset)
        result(d) == [statusCode |-> statusOrZero(statusCode), data |-> d,
                      headers |-> contentType]
    IN IF t.format = "json"
       THEN IF t.charset \notin KnownEncodings THEN [thrown |-> "TypeError", o |-> o]
            ELSE IF ~JSONparses(text) THEN [thrown |-> "SyntaxError", o |-> o]
            ELSE [thrown |-> "none", o |-> resolve(o, result(JSONparse(text)))]
       ELSE IF t.type = "text"
       THEN IF t.charset \notin KnownEncodings THEN [thrown |-> "TypeError", o |-> o]
            ELSE [thrown |-> "none", o |-> resolve(o, result([t |-> "string", v |-> text]))]
       ELSE [thrown |-> "none", o |-> resolve(o, result([t |-> "buffer", v |-> data]))]

\* The response 'error' handler.
onResError_swallow(o, err) == o

onResError(o, err) == reject(o, err)

-----------------------------------------------------------------------------
(* The transport's events on one dispatched request *)

NoResponse == [state |-> "none", contentType |-> JsUndefined, statusCode |-> StatusAbsent]

NoHistory == [resErr |-> "none", settledBefore |-> FALSE, arrived |-> <<>>]

ResponseIdle ==
    /\ req = "idle" /\ res = NoResponse /\ chunks = <<>>
    /\ outcome = Pending /\ uncaught = <<>> /\ hist = NoHistory

Errors == {"E1", "E2"}

ChunkSet == {<<Byte1>>, <<ByteQuote>>, <<ByteQuote, ByteE9>>}

ResponseContentTypes ==
    {JsUndefined,
     JsStr("application/json"),
     JsStr("Application/JSON; charset=latin1"),
     JsStr("text/json"),
     JsStr("text/plain; charset=gbk"),
     JsStr("text/html; charset=latin1"),
     JsStr("image/png")}

StatusCodes == {StatusAbsent, 200}

\* req.write(body, callback) calls back: with an error the promise is rejected
\* and the request is never ended, without one req.end() is called.
WriteCallback(err) ==
    /\ req = "writing"
    /\ IF err = "none"
       THEN /\ req' = "ended"
            /\ UNCHANGED <<outcome, hist>>
       ELSE /\ req' = "stalled"
            /\ outcome' = reject(outcome, err)
            /\ UNCHANGED hist
    /\ UNCHANGED <<res, chunks, uncaught, headerVars, ctVars, requestVars>>

\* req.on('error')
ReqError(err) ==
    /\ req # "idle"
    /\ outcome' = reject(outcome, err)
    /\ UNCHANGED <<req, res, chunks, uncaught, hist, headerVars, ctVars, requestVars>>

\* The response callback: the handlers are attached to res.
Response(contentType, statusCode) ==
    /\ req # "idle"
    /\ res.state = "none"
    /\ res' = [state |-> "open", contentType |-> contentType, statusCode |-> statusCode]
    /\ UNCHANGED <<req, chunks, outcome, uncaught, hist, headerVars, ctVars, requestVars>>

\* res.on('data')
ResData(data) ==
    /\ res.state = "open"
    /\ Len(chunks) < MaxChunks
    /\ chunks' = pushChunk(chunks, data)
    /\ hist' = [hist EXCEPT !.arrived = @ \o data]
    /\ UNCHANGED <<req, res, outcome, uncaught, headerVars, ctVars, requestVars>>

\* res.on('error'), before 'end'
ResError(err) ==
    /\ res.state = "open"
    /\ outcome' = onResError(outcome, err)
    /\ hist' = IF hist.resErr = "none"
               THEN [hist EXCEPT !.resErr = err,
                                 !.settledBefore = outcome.status # "pending"]
               ELSE hist
    /\ UNCHANGED <<req, res, chunks, uncaught, headerVars, ctVars, requestVars>>

\* res.on('end'): what the handler throws escapes it, past the promise.
ResEnd ==
    /\ res.state = "open"
    /\ LET r == onEnd(outcome, chunks, res.contentType, res.statusCode) IN
        /\ outcome' = r.o
        /\ uncaught' = IF r.thrown = "none" THEN uncaught ELSE Append(uncaught, r.thrown)
    /\ res' = [res EXCEPT !.state = "ended"]
    /\ UNCHANGED <<req, chunks, hist, headerVars, ctVars, requestVars>>

-----------------------------------------------------------------------------
(* Specifications *)

\* request() called up to MaxCalls times by a caller who holds one URL object.
Init ==
    /\ HeaderIdle /\ ContentTypeIdle /\ ResponseIdle
    /\ urlMade = parseURL(MadeHref)
    /\ urlHeap = urlMade
    /\ uri0 = NoURL /\ nCalls = 0 /\ opts = NoOptions /\ out = NotSent

Next == \E o \in RequestOptions : \E boundary \in BoundariesFor(o) : Request(o, boundary)

Spec == Init /\ [][Next]_vars

\* formatHeader on every header option of the bounds.
InitHeader ==
    /\ hdrArg \in HeaderArgs /\ hdrOut = NoHeaderOut
    /\ ContentTypeIdle /\ RequestIdle /\ ResponseIdle

NextHeader == FormatHeaderCall

SpecHeader == InitHeader /\ [][NextHeader]_vars

\* getContentType on every content-type value of the bounds.
InitContentType ==
    /\ ctArg \in ContentTypeArgs /\ ctOut = NoContentTypeOut
    /\ HeaderIdle /\ RequestIdle /\ ResponseIdle

NextContentType == GetContentTypeCall

SpecContentType == InitContentType /\ [][NextContentType]_vars

\* One request dispatched, then the transport's events in any order.
DispatchedOptions ==
    {[url |-> JsStr("http://h/p"), method |-> m, header |-> JsUndefined,
      data |-> JsObject(<<Entry("a", JsNum("1"))>>), dataType |-> "json"] :
        m \in {"GET", "POST"}}

InitResponse ==
    /\ HeaderIdle /\ ContentTypeIdle
    /\ urlHeap = NoURL /\ urlMade = NoURL /\ nCalls = 1
    /\ opts \in DispatchedOptions
    /\ LET b == requestBuild(opts, NoURL, "AnyConnk1r1r2") IN
        /\ uri0 = b.uri0
        /\ out = dispatched(opts, b)
    /\ req = IF out.wrote THEN "writing" ELSE "ended"
    /\ res = NoResponse /\ chunks = <<>>
    /\ outcome = Pending /\ uncaught = <<>> /\ hist = NoHistory

NextResponse ==
    \/ \E err \in Errors \cup {"none"} : WriteCallback(err)
    \/ \E err \in Errors : ReqError(err)
    \/ \E ct \in ResponseContentTypes, code \in StatusCodes : Response(ct, code)
    \/ \E data \in ChunkSet : ResData(data)
    \/ \E err \in Errors : ResError(err)
    \/ ResEnd

SpecResponse == InitResponse /\ [][NextResponse]_vars

-----------------------------------------------------------------------------
(* Properties of formatHeader, under SpecHeader *)

IdentityValue == Get(HEADERS_STATIC, "user-agent")

\* C4: whatever the caller gives for user-agent, under any letter case of the
\* field name, every user-agent field of the outgoing header set carries the
\* fixed identity value, never the caller's.
IdentityAlwaysWins ==
    hdrOut.done =>
        /\ \E i \in 1..Len(hdrOut.h) : toLowerCase(hdrOut.h[i].key) = "user-agent"
        /\ \A i \in 1..Len(hdrOut.h) :
              toLowerCase(hdrOut.h[i].key) = "user-agent" => hdrOut.h[i].val = IdentityValue

\* The entries of the header option whose value is null or undefined.
InvalidEntries == {i \in 1..Len(hdrArg.e) : hdrArg.e[i].val \in {JsNull, JsUndefined}}

\* C5, as claimed: every key given with a null or undefined value is absent from
\* the final header set, the default and identity fields included.
NullKeysAbsent ==
    hdrOut.done /\ isRecord(hdrArg) =>
        \A i \in InvalidEntries : ~Has(hdrOut.h, hdrArg.e[i].key)

\* C5, amended: an entry given with a null or undefined value is skipped: its key
\* is absent from the final header set, unless it is exactly a default field
\* (accept, connection) or the identity field (user-agent), which then keeps its
\* fixed value; no such key carries the text "null" or "undefined".
NullEntriesSkipped ==
    hdrOut.done /\ isRecord(hdrArg) =>
        \A i \in InvalidEntries :
            LET key == hdrArg.e[i].key IN
            IF Has(HEADERS_STATIC, key) THEN Get(hdrOut.h, key) = Get(HEADERS_STATIC, key)
            ELSE IF Has(HEADERS, key) THEN Get(hdrOut.h, key) = Get(HEADERS, key)
            ELSE ~Has(hdrOut.h, key)

NullEntriesSkippedWitness ==
    /\ hdrOut.done /\ isRecord(hdrArg)
    /\ \E i, j \in InvalidEntries :
          /\ hdrArg.e[i].key = "accept" /\ hdrArg.e[i].val = JsNull
          /\ hdrArg.e[j].key = "x-a" /\ hdrArg.e[j].val = JsUndefined
    /\ Has(hdrOut.h, "accept") /\ ~Has(hdrOut.h, "x-a")

-----------------------------------------------------------------------------
(* Properties of getContentType, under SpecContentType *)

\* The parameter segments of the value that are charset parameters.
CharsetParams ==
    {i \in 1..Len(ctArg.params) : MatchesCharset(toLowerCase(ctArg.params[i]))}

\* C10: the charset returned is the one a charset= parameter gives, wherever it
\* stands among the parameter segments, and utf-8 only when no segment is one.
CharsetFromAnySegment ==
    ctOut.done /\ ctArg.k = "string" /\ ctArg.media # "" =>
        IF CharsetParams = {} THEN ctOut.t.charset = "utf-8"
        ELSE \E i \in CharsetParams :
                ctOut.t.charset = CharsetGroup(toLowerCase(ctArg.params[i]))

-----------------------------------------------------------------------------
(* Properties of request() up to the dispatch, under Spec *)

\* The URL an invocation would start from if it depended on its own options
\* alone: its url string parsed, or the URL value as the caller made it.
OwnUrl == IF opts.url.k = "string" THEN parseURL(opts.url.s) ELSE urlMade

\* C6: the outgoing URL of an invocation depends on its own options alone, and no
\* invocation changes what the caller or another invocation reads: the URL value
\* handed to several invocations stays as the caller made it.
InvocationsIndependent ==
    /\ urlHeap = urlMade
    /\ out.sent => uri0 = OwnUrl

\* The keys of data that GET turns into parameters.
ValidKeys ==
    IF isRecord(opts.data)
    THEN {opts.data.e[i].key : i \in {j \in 1..Len(opts.data.e) :
                                        opts.data.e[j].val \notin {JsNull, JsUndefined}}}
    ELSE {}

\* The parameters of a query whose name is none of the names, in their order.
RECURSIVE ParamsBut(_, _)
ParamsBut(query, names) ==
    IF query = <<>> THEN <<>>
    ELSE (IF query[1].name \in names THEN <<>> ELSE <<query[1]>>)
         \o ParamsBut(Tail(query), names)

\* C7: a GET invocation writes no body, whatever data and dataType are; each key
\* of a data mapping with a valid value is one parameter of the outgoing URL,
\* with the value's string, in place of every parameter of that name the URL
\* had; everything else of the URL, the names of null and undefined values
\* included, is as it was.
GetCarriesNoBody ==
    out.sent /\ opts.method = "GET" =>
        LET after == parseURL(out.url) IN
        /\ out.body = "" /\ ~out.wrote
        /\ after.base = uri0.base
        /\ \A i \in 1..Len(opts.data.e) :
              opts.data.e[i].key \in ValidKeys =>
                  LET hits == {j \in 1..Len(after.query) :
                                  after.query[j].name = opts.data.e[i].key}
                  IN /\ Cardinality(hits) = 1
                     /\ \A j \in hits :
                           after.query[j].value = toString(opts.data.e[i].val)
        /\ ParamsBut(after.query, ValidKeys) = ParamsBut(uri0.query, ValidKeys)

\* A GET whose data names a parameter the URL holds twice and one it holds once
\* with a null value.
GetCarriesNoBodyWitness ==
    /\ out.sent /\ opts.method = "GET" /\ isRecord(opts.data)
    /\ Len(opts.data.e) = 2
    /\ \E i \in 1..2 : opts.data.e[i] = Entry("a", JsStr("x"))
    /\ \E i \in 1..2 : opts.data.e[i] = Entry("b", JsNull)
    /\ Cardinality({j \in 1..Len(uri0.query) : uri0.query[j].name = "a"}) = 2
    /\ out.url = uri0.base \o "?a=x&b=2"

\* The content-type value each dataType forces.
ForcedContentType(dataType, value) ==
    IF dataType = "json" THEN value = "application/json"
    ELSE IF dataType = "form" THEN value = "application/x-www-form-urlencoded"
    ELSE \E b \in Boundaries :
            /\ value = "multipart/form-data; boundary=" \o b
            /\ StartsWith(out.body, "--" \o b)

\* C8: on a POST whose data is a mapping the outgoing content-type is decided by
\* dataType alone: every content-type field of the outgoing header set, under any
\* letter case of its name, carries the forced value, none the caller's.
DataTypeDecidesContentType ==
    out.sent /\ opts.method = "POST" /\ isRecord(opts.data) =>
        /\ \E i \in 1..Len(out.headers) : toLowerCase(out.headers[i].key) = "content-type"
        /\ \A i \in 1..Len(out.headers) :
              toLowerCase(out.headers[i].key) = "content-type" =>
                  ForcedContentType(opts.dataType, out.headers[i].val)

-----------------------------------------------------------------------------
(* Properties of the promise under the transport's events, under SpecResponse *)

\* C1: the result settles exactly once: when the response has signalled 'end'
\* the promise is resolved or failed, and once it is settled no later event
\* changes its outcome.
SettlesExactlyOnce ==
    [][/\ res'.state = "ended" => outcome'.status # "pending"
       /\ outcome.status # "pending" => outcome' = outcome]_vars

\* The text the 'end' handler parses, and the descriptor it reads.
EndDescriptor == getContentType(res.contentType)

EndText == bufferToString(hist.arrived, EndDescriptor.charset)

\* C2: when 'end' arrives for a response whose content-type has format json and
\* whose body is no valid JSON, the promise is failed, with the parser's error
\* unless a transport error had failed it before: it is not left unsettled.
JsonFailureRejects ==
    /\ res.state = "ended"
    /\ EndDescriptor.format = "json"
    /\ EndDescriptor.charset \in KnownEncodings
    /\ ~JSONparses(EndText)
    => /\ outcome.status = "failed"
       /\ outcome.error \in {"SyntaxError"} \cup Errors

\* C3: once a response 'error' has come before 'end', after any number of 'data'
\* chunks, the promise is failed and stays failed through every later event, a
\* later 'end' included: it carries no status code, headers or buffered bytes,
\* and its error is that error (the promise being pending when the error came).
ResponseErrorFailsForGood ==
    hist.resErr # "none" =>
        /\ outcome.status = "failed"
        /\ outcome.value = NoValue
        /\ ~hist.settledBefore => outcome.error = hist.resErr

\* A response error after two chunks, then 'end' on a body that would decode.
ResponseErrorFailsForGoodWitness ==
    /\ hist.resErr = "E2" /\ ~hist.settledBefore
    /\ Len(chunks) = 2
    /\ res.state = "ended"
    /\ EndDescriptor.format = "json" /\ JSONparses(EndText)
    /\ outcome.status = "failed" /\ outcome.error = "E2"

\* C9: what 'end' resolves with is decided by the response content-type and the
\* chunks alone: the bytes in arrival order, JSON-parsed from the charset-decoded
\* text when the format is json, else that text when the type is text, else the
\* bytes as they came; no or a non-string content-type reads as text/plain in
\* utf-8; the status code is the response's, or 0 when it has none.
ResolvedDataFollowsContentType ==
    outcome.status = "resolved" =>
        LET t == IF res.contentType.k # "string" THEN DefaultContentType
                 ELSE EndDescriptor
            text == bufferToString(hist.arrived, t.charset)
        IN /\ res.state = "ended"
           /\ outcome.value.statusCode =
                 (IF res.statusCode = StatusAbsent THEN 0 ELSE res.statusCode)
           /\ outcome.value.headers = res.contentType
           /\ outcome.value.data =
                 IF t.format = "json" THEN JSONparse(text)
                 ELSE IF t.type = "text" THEN [t |-> "string", v |-> text]
                 ELSE [t |-> "buffer", v |-> hist.arrived]

\* A text/json response of two chunks, resolved with the parsed string of the utf-8 text.
ResolvedDataFollowsContentTypeWitness ==
    /\ outcome.status = "resolved"
    /\ EndDescriptor.type = "text" /\ EndDescriptor.format = "json"
    /\ chunks = <<<<ByteQuote, ByteE9>>, <<ByteQuote>>>>
    /\ outcome.value.data = [t |-> "json-string", v |-> <<ReplacementChar>>]
    /\ outcome.value.statusCode = 0

====
